---------------------------- MODULE Spec2Model ----------------------------
(***************************************************************************)
(* A model of vikhlinin/fitter.py: the Vikhlinin density model function,   *)
(* the residual objective, and the VikhlininProfile estimator that runs a  *)
(* bounded L-BFGS-B fit in its constructor.                                *)
(*                                                                         *)
(* Numbers.  A float is a record [k, n, d]: a non-negative rational n/d    *)
(* (k = "fin"), +infinity (k = "inf") or NaN (k = "nan").  The field       *)
(* operations are exact; the operations that round in the program round    *)
(* here too, on a coarser grid:                                            *)
(*   - np.log10 rounds its result down to a multiple of half a decade;     *)
(*   - the float32 cast keeps MantBits32 significant bits (ties to even)   *)
(*     and overflows to infinity above exponent F32MaxExp.                 *)
(* A value produced by a fractional power is irrational in general; such a *)
(* value v >= 0 is carried as the float v^2 ("square-carried"), which      *)
(* determines it.  All exponents of the model function are multiples of    *)
(* 1/2 on the parameter grid used (alpha even, epsilon a multiple of 3).   *)
(***************************************************************************)
EXTENDS Integers, Sequences, FiniteSets, TLC

\* ------------------------------------------------------------------ floats

RECURSIVE GCD(_, _)
GCD(a, b) == IF b = 0 THEN a ELSE GCD(b, a % b)

RECURSIVE IPow(_, _)
IPow(b, e) == IF e = 0 THEN 1 ELSE b * IPow(b, e - 1)

Inf == [k |-> "inf", n |-> 1, d |-> 0]
NaN == [k |-> "nan", n |-> 0, d |-> 0]

\* The rational n/d (n >= 0, d > 0), in lowest terms.
Rat(n, d) == LET g == GCD(n, d) IN [k |-> "fin", n |-> n \div g, d |-> d \div g]
Fin(n) == [k |-> "fin", n |-> n, d |-> 1]

IsFinite(a) == a.k = "fin"
IsZero(a) == a.k = "fin" /\ a.n = 0

\* a < b for rationals p/q, r/s, by continued fractions (no large products).
RECURSIVE RatLess(_, _, _, _)
RatLess(p, q, r, s) ==
    LET ip == p \div q
        ir == r \div s
        fp == p % q
        fr == r % s
    IN  IF ip # ir THEN ip < ir
        ELSE IF fr = 0 THEN FALSE
        ELSE IF fp = 0 THEN TRUE
        ELSE RatLess(s, fr, q, fp)

\* IEEE comparison: every comparison with NaN is false.
FLess(a, b) ==
    CASE a.k = "nan" \/ b.k = "nan" -> FALSE
      [] a.k = "inf" -> FALSE
      [] b.k = "inf" -> TRUE
      [] OTHER -> RatLess(a.n, a.d, b.n, b.d)

FLe(a, b) == a.k # "nan" /\ b.k # "nan" /\ (a = b \/ FLess(a, b))

FMul(a, b) ==
    CASE a.k = "nan" \/ b.k = "nan" -> NaN
      [] a.k = "inf" -> IF IsZero(b) THEN NaN ELSE Inf
      [] b.k = "inf" -> IF IsZero(a) THEN NaN ELSE Inf
      [] OTHER -> LET g1 == GCD(a.n, b.d)
                      g2 == GCD(b.n, a.d)
                  IN  Rat((a.n \div g1) * (b.n \div g2), (a.d \div g2) * (b.d \div g1))

\* numpy division: x/0 is inf for x > 0 and NaN for x = 0, without raising.
FDiv(a, b) ==
    CASE a.k = "nan" \/ b.k = "nan" -> NaN
      [] a.k = "inf" -> IF b.k = "inf" THEN NaN ELSE Inf
      [] b.k = "inf" -> Fin(0)
      [] b.n = 0 -> IF a.n = 0 THEN NaN ELSE Inf
      [] OTHER -> FMul(a, [k |-> "fin", n |-> b.d, d |-> b.n])

FAdd(a, b) ==
    CASE a.k = "nan" \/ b.k = "nan" -> NaN
      [] a.k = "inf" \/ b.k = "inf" -> Inf
      [] OTHER -> Rat(a.n * b.d + b.n * a.d, a.d * b.d)

\* a ** e for an integer e: pow(x, 0) = 1 for every x, NaN included.
FPowInt(a, e) ==
    CASE e = 0 -> Fin(1)
      [] a.k = "nan" -> NaN
      [] a.k = "inf" -> IF e > 0 THEN Inf ELSE Fin(0)
      [] a.n = 0 -> IF e > 0 THEN Fin(0) ELSE Inf
      [] e > 0 -> [k |-> "fin", n |-> IPow(a.n, e), d |-> IPow(a.d, e)]
      [] OTHER -> [k |-> "fin", n |-> IPow(a.d, -e), d |-> IPow(a.n, -e)]

\* The square-carried form of a plain float.
Sq(a) == FMul(a, a)

\* base ** (twoE / 2), square-carried: its square is base ** twoE.
Power(base, twoE) == FPowInt(base, twoE)

\* ------------------------------------------------------ logarithms (log10)

\* A log-domain value: an integer count v of half decades, or -inf, +inf, NaN.
LFin(v) == [k |-> "fin", v |-> v]
LPInf == [k |-> "pinf", v |-> 0]
LNInf == [k |-> "ninf", v |-> 0]
LNaN == [k |-> "nan", v |-> 0]

\* The largest L >= from with b^L <= n/d, given b^from <= n/d.
RECURSIVE LogUp(_, _, _, _)
LogUp(b, n, d, from) ==
    IF (n \div IPow(b, from + 1)) >= d THEN LogUp(b, n, d, from + 1) ELSE from

\* The smallest m >= from with n * b^m >= d  (n > 0).
RECURSIVE LogDown(_, _, _, _)
LogDown(b, n, d, from) ==
    LET p == IPow(b, from)
    IN  IF n >= (d + p - 1) \div p THEN from ELSE LogDown(b, n, d, from + 1)

\* floor(log_b(n/d)) for n, d > 0.
FloorLog(b, n, d) == IF n >= d THEN LogUp(b, n, d, 0) ELSE -LogDown(b, n, d, 1)

FloorLog10(n, d) == FloorLog(10, n, d)

\* np.log10 of a square-carried value s = v^2: log10(v) = log10(s)/2, rounded
\* down to the half-decade grid; log10(0) = -inf.
Log10(s) ==
    CASE s.k = "nan" -> LNaN
      [] s.k = "inf" -> LPInf
      [] s.n = 0 -> LNInf
      [] OTHER -> LFin(FloorLog10(s.n, s.d))

\* 10 ** l, square-carried: its square is 10^v.
Pow10(l) ==
    CASE l.k = "nan" -> NaN
      [] l.k = "pinf" -> Inf
      [] l.k = "ninf" -> Fin(0)
      [] l.v >= 0 -> Fin(IPow(10, l.v))
      [] OTHER -> [k |-> "fin", n |-> 1, d |-> IPow(10, -l.v)]

LSub(a, b) ==
    CASE a.k = "nan" \/ b.k = "nan" -> LNaN
      [] a.k = "fin" /\ b.k = "fin" -> LFin(a.v - b.v)
      [] a.k = b.k -> LNaN
      [] a.k = "pinf" \/ b.k = "ninf" -> LPInf
      [] OTHER -> LNInf

LMul(a, b) ==
    CASE a.k = "nan" \/ b.k = "nan" -> LNaN
      [] a.k = "fin" /\ b.k = "fin" -> LFin(a.v * b.v)
      [] (a.k = "fin" /\ a.v = 0) \/ (b.k = "fin" /\ b.v = 0) -> LNaN
      [] OTHER -> LET neg(x) == x.k = "ninf" \/ (x.k = "fin" /\ x.v < 0)
                  IN  IF neg(a) = neg(b) THEN LPInf ELSE LNInf

LAdd(a, b) ==
    CASE a.k = "nan" \/ b.k = "nan" -> LNaN
      [] a.k = "fin" /\ b.k = "fin" -> LFin(a.v + b.v)
      [] a.k = "fin" -> b
      [] b.k = "fin" -> a
      [] a.k = b.k -> a
      [] OTHER -> LNaN

\* np.sum of a sequence of log-domain values.
RECURSIVE LSum(_)
LSum(s) == IF s = <<>> THEN LFin(0) ELSE LAdd(Head(s), LSum(Tail(s)))

LNonNegative(a) == a.k = "pinf" \/ (a.k = "fin" /\ a.v >= 0)

\* ------------------------------------------------------------ float32 cast

\* Significant bits kept by the float32 cast, and its largest binary exponent
\* (24 and 127 in IEEE single precision; scaled down with the number grid).
MantBits32 == 2
F32MaxExp == 3

\* q + rem/den rounded to the nearest integer, ties to the even one.
RoundHalfEven(q, rem, den) ==
    IF 2 * rem > den \/ (2 * rem = den /\ q % 2 = 1) THEN q + 1 ELSE q

\* The largest float32: all mantissa bits set at the largest exponent.
F32Largest == Fin((IPow(2, MantBits32) - 1) * IPow(2, F32MaxExp - MantBits32 + 1))

Overflow32(r) == IF FLess(F32Largest, r) THEN Inf ELSE r

\* n/d rounded to a multiple of 2^shift.
RoundTo(n, d, shift) ==
    IF shift >= 0
    THEN Rat(RoundHalfEven(n \div (d * IPow(2, shift)), n % (d * IPow(2, shift)),
                           d * IPow(2, shift)) * IPow(2, shift), 1)
    ELSE Rat(RoundHalfEven((n * IPow(2, -shift)) \div d, (n * IPow(2, -shift)) % d, d),
             IPow(2, -shift))

\* np.array(v, dtype=np.float32): v rounded to MantBits32 significant bits,
\* infinity when the rounded value exceeds the largest float32.
F32(a) ==
    IF a.k # "fin" \/ a.n = 0 THEN a
    ELSE Overflow32(RoundTo(a.n, a.d, FloorLog(2, a.n, a.d) - (MantBits32 - 1)))

\* ---------------------------------------------------------- model function

\* Twice the three exponents of the model function, for parameters on the grid
\* (alpha even, epsilon a multiple of 3): -alpha/2, 3*beta/2 - alpha/4, epsilon/6.
TwiceExp1(alpha) == -alpha.n
TwiceExp2(alpha, beta) == 3 * beta.n - alpha.n \div 2
TwiceExp3(epsilon) == epsilon.n \div 3

\* A variant of the model with term2 as a factor instead of a divisor.
ModelValue_term2_multiplied(r, n_0, r_core, r_scale, alpha, beta, epsilon) ==
    FDiv(FMul(FMul(Sq(n_0), Power(FDiv(r, r_core), TwiceExp1(alpha))),
              Power(FAdd(Fin(1), FPowInt(FDiv(r, r_core), 2)), TwiceExp2(alpha, beta))),
         Power(FAdd(Fin(1), FPowInt(FDiv(r, r_scale), 3)), TwiceExp3(epsilon)))

\* One element of the model: n_0 * term1 / term2 / term3, square-carried.
ModelValue(r, n_0, r_core, r_scale, alpha, beta, epsilon) ==
    LET term1 == Power(FDiv(r, r_core), TwiceExp1(alpha))
        term2 == Power(FAdd(Fin(1), FPowInt(FDiv(r, r_core), 2)), TwiceExp2(alpha, beta))
        term3 == Power(FAdd(Fin(1), FPowInt(FDiv(r, r_scale), 3)), TwiceExp3(epsilon))
    IN  FDiv(FDiv(FMul(Sq(n_0), term1), term2), term3)

\* unyt: 1 + q raises UnitOperationError unless q is dimensionless; a plain
\* ndarray (units "none") carries no unit.
Dimensionless(units) == units \in {"dimensionless", "none"}

\* vikhlinin_density_model(radius, n_0, ..., epsilon, yield_log): radius is an
\* array [vals, units]; the result is [raised, vals], vals the element-wise
\* log10 values (yield_log) or the linear, square-carried values.
vikhlinin_density_model(radius, n_0, r_core, r_scale, alpha, beta, epsilon, yield_log) ==
    IF ~Dimensionless(radius.units) THEN [raised |-> TRUE, vals |-> <<>>]
    ELSE [raised |-> FALSE,
          vals |-> [i \in 1..Len(radius.vals) |->
                     LET v == ModelValue(radius.vals[i], n_0, r_core, r_scale,
                                         alpha, beta, epsilon)
                     IN  IF yield_log THEN Log10(v) ELSE v]]

\* ------------------------------------------------------------------- state

\* The estimator objects of the model, and the operations' caps.
Instances == {1, 2}
MaxPrints == 1
MaxWrites == 1

VARIABLES
    arrays,      \* heap: array and list objects, id -> [vals, units]
    boundlists,  \* heap: lists of (lower, upper) pairs, id -> sequence
    inst,        \* the VikhlininProfile objects
    calls,       \* per object, the calls made to scipy.optimize.minimize
    warnings,    \* per object, the RuntimeWarnings emitted
    stdout,      \* per object, the reports print_fit_parameters wrote
    print_raised,\* whether a print_fit_parameters call raised
    nwrites,     \* element writes done so far by the caller
    ev           \* an evaluation of the model function at two radii

vars == <<arrays, boundlists, inst, calls, warnings, stdout, print_raised, nwrites, ev>>

Vec(s) == [i \in 1..Len(s) |-> Fin(s[i])]
Pair(lo, hi) == [lo |-> lo, hi |-> hi]

\* fitter.py:14.  The default start [3e-3, 0.1, 0.6, 0.5, 0.4, 1.2], as the
\* point of the parameter grid that stands for it.
starting_parameters_default == Vec(<<3, 1, 2, 2, 1, 3>>)

\* fitter.py:15-20.
parameter_bounds_default ==
    << Pair(Fin(0), Inf), Pair(Fin(0), Inf), Pair(Fin(0), Inf),
       Pair(Fin(0), Inf), Pair(Fin(0), Inf), Pair(Fin(0), Fin(5)) >>

\* Heap ids of the two module-level default objects.
SPD == "starting_parameters_default"
PBD == "parameter_bounds_default"

\* The caller's own objects: for estimator i a radius array, a density array, a
\* start list and a bounds list, used for no other estimator.
RadiiOf(i) == IF i = 1 THEN "radii_1" ELSE "radii_2"
DensityOf(i) == IF i = 1 THEN "density_1" ELSE "density_2"
StartOf(i) == IF i = 1 THEN "start_1" ELSE "start_2"
BoundsOf(i) == IF i = 1 THEN "bounds_1" ELSE "bounds_2"

ArrayIds == {SPD} \cup {RadiiOf(i) : i \in Instances} \cup {DensityOf(i) : i \in Instances}
                  \cup {StartOf(i) : i \in Instances}
BoundIds == {PBD} \cup {BoundsOf(i) : i \in Instances}
CallerArrays == ArrayIds \ {SPD}

Array(vals, units) == [vals |-> vals, units |-> units]

\* A caller's bounds in the manner of parameter_bounds_macsis (fitter.py:22-27):
\* narrow ranges, alpha pinned.
NarrowBounds ==
    << Pair(Fin(5), Fin(7)), Pair(Fin(1), Fin(2)), Pair(Fin(1), Fin(2)),
       Pair(Fin(2), Fin(2)), Pair(Fin(0), Fin(1)), Pair(Fin(0), Fin(3)) >>

\* The value the caller writes into an element, and the pair it writes into a
\* bounds list.
WriteValue == Fin(4)
WritePair == Pair(Fin(0), Fin(6))

NoScalar == [value |-> Fin(0), units |-> "none", dtype |-> "unset"]
NoText == [type |-> "unset", text |-> ""]
NoResult == [x |-> <<>>, success |-> FALSE, message |-> NoText, nit |-> 0, fun |-> LNaN]

InputAttrs == {"radii", "density_profile", "starting_parameters", "parameter_bounds"}
ParamAttrs == {"n_0", "r_core", "r_scale", "alpha", "beta", "epsilon"}
ResultAttrs == {"density_fit_params", "density_profile_hse"} \cup ParamAttrs
                   \cup {"success", "message", "n_iterations"}
AllAttrs == InputAttrs \cup ResultAttrs

\* An object before __init__ has assigned anything; set is the set of
\* attributes assigned so far.
Blank ==
    [state |-> "none", set |-> {},
     radii |-> "", density_profile |-> "", starting_parameters |-> "",
     parameter_bounds |-> "",
     density_fit_params |-> NoResult, density_profile_hse |-> <<>>,
     n_0 |-> NoScalar, r_core |-> NoScalar, r_scale |-> NoScalar,
     alpha |-> NoScalar, beta |-> NoScalar, epsilon |-> NoScalar,
     success |-> FALSE, message |-> NoText, n_iterations |-> 0]

NoEval == [phase |-> "idle", r1 |-> Fin(1), r2 |-> Fin(1), p |-> <<>>,
           v1 |-> NaN, v2 |-> NaN]

\* ------------------------------------------------------------ the optimizer

\* fitter.py:102, options={'maxiter': 1e4, ...}.
MaxIter == 10000

Bytes(t) == [type |-> "bytes", text |-> t]
\* bytes.decode('ascii'): the text of an ASCII byte string, as a str.
Decode(b) == [type |-> "str", text |-> b.text]

\* What one run of L-BFGS-B may come to: the point it stops at before
\* projection on the bounds ("start": it never leaves the starting vector),
\* and the diagnostics it reports.
Outcomes ==
    { [pick |-> "start", x |-> <<>>, success |-> TRUE, nit |-> 0,
       message |-> Bytes("CONVERGENCE: NORM_OF_PROJECTED_GRADIENT_<=_PGTOL")],
      [pick |-> "point", x |-> Vec(<<1, 1, 2, 2, 1, 3>>), success |-> TRUE, nit |-> 7,
       message |-> Bytes("CONVERGENCE: REL_REDUCTION_OF_F_<=_FACTR*EPSMCH")],
      [pick |-> "point", x |-> Vec(<<20, 2, 1, 0, 1, 0>>), success |-> FALSE,
       nit |-> MaxIter,
       message |-> Bytes("STOP: TOTAL NO. of ITERATIONS REACHED LIMIT")],
      [pick |-> "point", x |-> Vec(<<6, 0, 1, 2, 0, 3>>), success |-> FALSE, nit |-> 2,
       message |-> Bytes("ABNORMAL_TERMINATION_IN_LNSRCH")] }

FMax(a, b) == IF FLess(a, b) THEN b ELSE a
FMin(a, b) == IF FLess(b, a) THEN b ELSE a

\* The projection of a point on the box of the bounds, as L-BFGS-B does it.
Clip(x, bounds) == [i \in 1..Len(x) |-> FMax(bounds[i].lo, FMin(x[i], bounds[i].hi))]

InBounds(v, b) == FLe(b.lo, v) /\ FLe(v, b.hi)

\* --------------------------------------------------------- the estimator

\* np.log10 of an array of plain floats.
Log10Array(a) == [i \in 1..Len(a.vals) |-> Log10(Sq(a.vals[i]))]

\* A variant of the objective that sums the errors without squaring them.
SumSquaredError_unsquared(density_model, density_data) ==
    LSum([i \in 1..Len(density_data) |-> LSub(density_model[i], density_data[i])])

\* np.sum(error * error) with error = density_model - density_data.
SumSquaredError(density_model, density_data) ==
    LSum([i \in 1..Len(density_data) |->
            LMul(LSub(density_model[i], density_data[i]),
                 LSub(density_model[i], density_data[i]))])

\* Lines 86-87 of residuals_density, given the model's result: the subtraction
\* raises ValueError when the two arrays differ in length.
ResidualOf(density_model, density_data) ==
    IF density_model.raised \/ Len(density_model.vals) # Len(density_data)
    THEN [raised |-> TRUE, value |-> LNaN]
    ELSE [raised |-> FALSE, value |-> SumSquaredError(density_model.vals, density_data)]

\* VikhlininProfile.residuals_density (static): [raised, value].  The call
\* vikhlinin_density_model(radius_data, *free_parameters) raises TypeError
\* unless there are six parameters.
residuals_density(free_parameters, density_data, radius_data) ==
    IF Len(free_parameters) # 6 THEN [raised |-> TRUE, value |-> LNaN]
    ELSE ResidualOf(vikhlinin_density_model(radius_data,
                        free_parameters[1], free_parameters[2], free_parameters[3],
                        free_parameters[4], free_parameters[5], free_parameters[6], TRUE),
                    density_data)

\* The OptimizeResult of a run that stopped at x.
OptimizeResult(x, fun, o) ==
    [x |-> x, success |-> o.success, message |-> o.message, nit |-> o.nit,
     fun |-> fun.value]

\* scipy.optimize.minimize(residuals_density, x0, args, method='L-BFGS-B',
\* bounds): [raised, res].  One run from x0: it raises when x0 and bounds differ
\* in length or the objective raises; otherwise it stops at the projection on
\* the bounds of the point the outcome o names, and reports o's diagnostics and
\* the objective's value there.
minimize(args, x0, bounds, o) ==
    IF Len(bounds) # Len(x0) \/ residuals_density(x0, args[1], args[2]).raised
    THEN [raised |-> TRUE, res |-> NoResult]
    ELSE [raised |-> FALSE,
          res |-> OptimizeResult(Clip(IF o.pick = "start" THEN x0 ELSE o.x, bounds),
                     residuals_density(Clip(IF o.pick = "start" THEN x0 ELSE o.x, bounds),
                                       args[1], args[2]),
                     o)]

\* The call record density_fit leaves for one call of minimize.
CallRecord(self, x, y, optimize_result) ==
    [x0 |-> self.starting_parameters,
     x0_value |-> arrays[self.starting_parameters].vals,
     bounds |-> self.parameter_bounds,
     bounds_value |-> boundlists[self.parameter_bounds],
     density_data |-> y, radius_data |-> x,
     method |-> "L-BFGS-B",
     raised |-> optimize_result.raised,
     returned |-> optimize_result.res]

\* A variant of lines 104-107 that emits no warning on non-convergence.
FitOutcome_silent(self, x, y, optimize_result) ==
    [raised |-> optimize_result.raised,
     result |-> optimize_result.res,
     warned |-> FALSE,
     calls |-> << CallRecord(self, x, y, optimize_result) >>]

\* Lines 104-107 of density_fit, given what minimize did.
FitOutcome(self, x, y, optimize_result) ==
    [raised |-> optimize_result.raised,
     result |-> optimize_result.res,
     warned |-> ~optimize_result.raised /\ ~optimize_result.res.success,
     calls |-> << CallRecord(self, x, y, optimize_result) >>]

\* A second call of minimize after a run that did not converge.
Retried(fit) == [fit EXCEPT !.calls = IF fit.warned THEN @ \o @ ELSE @]

\* A variant of density_fit that runs the optimizer again when it has not
\* converged.
density_fit_retry(self, x, y, o) ==
    Retried(FitOutcome(self, x, y,
                       minimize(<<y, x>>, arrays[self.starting_parameters].vals,
                                boundlists[self.parameter_bounds], o)))

\* A variant of density_fit that passes the default bounds to minimize instead
\* of self.parameter_bounds.
density_fit_default_bounds(self, x, y, o) ==
    FitOutcome(self, x, y,
               minimize(<<y, x>>, arrays[self.starting_parameters].vals,
                        parameter_bounds_default, o))

\* VikhlininProfile.density_fit(x, y): [raised, result, warned, calls].  calls
\* lists the calls to minimize it made: the objects passed (x0, bounds) and
\* their contents at the call, the args, and what the call came to.
density_fit(self, x, y, o) ==
    FitOutcome(self, x, y,
               minimize(<<y, x>>, arrays[self.starting_parameters].vals,
                        boundlists[self.parameter_bounds], o))

Assign(self, name, value) == [self EXCEPT ![name] = value, !.set = @ \cup {name}]

PlainScalar(v) == [value |-> v, units |-> "none", dtype |-> "float64"]
\* unyt.unyt_quantity(np.array(v, dtype=np.float32), units)
Quantity32(v, units) == [value |-> F32(v), units |-> units, dtype |-> "float32"]

\* A variant of the unpacking with r_core and r_scale exchanged.
UnpackOrder_swapped == <<"n_0", "r_scale", "r_core", "alpha", "beta", "epsilon">>

\* The six names of line 117, in the order of the unpacking.
UnpackOrder == <<"n_0", "r_core", "r_scale", "alpha", "beta", "epsilon">>

\* Line 117: the tuple assignment, which raises ValueError unless x has six
\* components.
RECURSIVE Unpack(_, _, _)
Unpack(self, x, k) ==
    IF k > Len(UnpackOrder) THEN self
    ELSE Unpack(Assign(self, UnpackOrder[k], PlainScalar(x[k])), x, k + 1)

Outcome(self, raised, fit) ==
    [self |-> self, raised |-> raised, warned |-> fit.warned, calls |-> fit.calls]

\* Lines 123-125.
Line125(self, fit) ==
    Outcome(Assign(Assign(Assign(self, "success", fit.result.success),
                          "message", Decode(fit.result.message)),
                   "n_iterations", fit.result.nit),
            FALSE, fit)

\* Lines 119-120.  A plain ndarray has no attribute units: AttributeError.
Line119(self, radii, fit) ==
    IF radii.units = "none" THEN Outcome(self, TRUE, fit)
    ELSE Line125(Assign(Assign(self, "r_core", Quantity32(self.r_core.value, radii.units)),
                        "r_scale", Quantity32(self.r_scale.value, radii.units)),
                 fit)

\* Line 118.
Line118(self, radii, density_profile, fit) ==
    IF density_profile.units = "none" THEN Outcome(self, TRUE, fit)
    ELSE Line119(Assign(self, "n_0", Quantity32(self.n_0.value, density_profile.units)),
                 radii, fit)

\* 10 ** a, element-wise.
Pow10Array(a) == [i \in 1..Len(a) |-> Pow10(a[i])]

\* Lines 114-117, given the model's result (yield_log left at its default).
Line114(self, radii, density_profile, fit, m) ==
    IF m.raised \/ Len(fit.result.x) # 6 THEN Outcome(self, TRUE, fit)
    ELSE Line118(Unpack(Assign(self, "density_profile_hse", Pow10Array(m.vals)),
                        fit.result.x, 1),
                 radii, density_profile, fit)

\* A variant of lines 113-114 that evaluates the model at the starting vector
\* instead of the fitted one.
Line113_at_start(self, radii, density_profile, fit) ==
    IF fit.raised THEN Outcome(self, TRUE, fit)
    ELSE Line114(Assign(self, "density_fit_params", fit.result),
                 radii, density_profile, fit,
                 IF Len(fit.result.x) # 6 THEN [raised |-> TRUE, vals |-> <<>>]
                 ELSE vikhlinin_density_model(radii,
                          fit.calls[1].x0_value[1], fit.calls[1].x0_value[2],
                          fit.calls[1].x0_value[3], fit.calls[1].x0_value[4],
                          fit.calls[1].x0_value[5], fit.calls[1].x0_value[6], TRUE))

\* Lines 113-114, given what density_fit did.
Line113(self, radii, density_profile, fit) ==
    IF fit.raised THEN Outcome(self, TRUE, fit)
    ELSE Line114(Assign(self, "density_fit_params", fit.result),
                 radii, density_profile, fit,
                 IF Len(fit.result.x) # 6 THEN [raised |-> TRUE, vals |-> <<>>]
                 ELSE vikhlinin_density_model(radii,
                          fit.result.x[1], fit.result.x[2], fit.result.x[3],
                          fit.result.x[4], fit.result.x[5], fit.result.x[6], TRUE))

\* VikhlininProfile.run_hse_fit: [self, raised, warned, calls], self as the
\* statements executed before it returned or raised left it.
run_hse_fit(self, o) ==
    Line113(self, arrays[self.radii], arrays[self.density_profile],
            density_fit(self, arrays[self.radii],
                        Log10Array(arrays[self.density_profile]), o))

\* A variant of __init__ that swallows the exception and returns the object.
Returned_always(r) == [r EXCEPT !.self.state = "fitted"]

\* The end of __init__: the caller gets the object (state "fitted") only if
\* nothing raised.
Returned(r) == [r EXCEPT !.self.state = IF r.raised THEN "raised" ELSE "fitted"]

\* VikhlininProfile.__init__: the four assignments, then run_hse_fit.
VikhlininProfile_init(self, radii, density_profile, start_params, param_bounds, o) ==
    Returned(run_hse_fit(
        Assign(Assign(Assign(Assign(self, "radii", radii),
                             "density_profile", density_profile),
                      "starting_parameters", start_params),
               "parameter_bounds", param_bounds),
        o))

\* The attributes print_fit_parameters reads, in the order it prints them.
PrintOrder == UnpackOrder \o <<"success", "message", "n_iterations">>

\* VikhlininProfile.print_fit_parameters: [raised, report]; it reads, assigns
\* nothing and returns None.  Reading an attribute never assigned raises.
print_fit_parameters(self) ==
    IF \E k \in 1..Len(PrintOrder) : PrintOrder[k] \notin self.set
    THEN [raised |-> TRUE, report |-> <<>>]
    ELSE [raised |-> FALSE,
          report |-> <<self.n_0, self.r_core, self.r_scale, self.alpha, self.beta,
                       self.epsilon, self.success, self.message, self.n_iterations>>]

\* ------------------------------------------------------------------ actions

\* The effect of a construction of estimator i that came to r.
Constructed(i, r) ==
    /\ inst' = [inst EXCEPT ![i] = r.self]
    /\ calls' = [calls EXCEPT ![i] = @ \o r.calls]
    /\ warnings' = [warnings EXCEPT ![i] = @ + (IF r.warned THEN 1 ELSE 0)]

\* A caller constructs estimator i from its own arrays, with its own start
\* list and bounds or the defaults.
Construct(i) ==
    /\ inst[i].state = "none"
    /\ \E start_params \in {SPD, StartOf(i)}, param_bounds \in {PBD, BoundsOf(i)},
          o \in Outcomes :
          Constructed(i, VikhlininProfile_init(Blank, RadiiOf(i), DensityOf(i),
                                               start_params, param_bounds, o))
    /\ UNCHANGED <<arrays, boundlists, stdout, print_raised, nwrites, ev>>

\* The effect of a print_fit_parameters call on estimator i that came to r.
Printed(i, r) ==
    /\ stdout' = IF r.raised THEN stdout ELSE [stdout EXCEPT ![i] = Append(@, r.report)]
    /\ print_raised' = (print_raised \/ r.raised)

\* The caller calls print_fit_parameters on an estimator it was given.
PrintFitParameters(i) ==
    /\ inst[i].state = "fitted"
    /\ Len(stdout[i]) < MaxPrints
    /\ Printed(i, print_fit_parameters(inst[i]))
    /\ UNCHANGED <<arrays, boundlists, inst, calls, warnings, nwrites, ev>>

\* The caller writes an element of one of its own arrays or lists.
CallerWrite(a) ==
    /\ nwrites < MaxWrites
    /\ arrays' = [arrays EXCEPT ![a].vals[1] = WriteValue]
    /\ nwrites' = nwrites + 1
    /\ UNCHANGED <<boundlists, inst, calls, warnings, stdout, print_raised, ev>>

\* The caller writes an element of an input through the estimator's attribute,
\* as in  est.starting_parameters[0] = v.
WriteThrough(i, attr) ==
    /\ inst[i].state = "fitted"
    /\ nwrites < MaxWrites
    /\ nwrites' = nwrites + 1
    /\ IF attr = "parameter_bounds"
       THEN /\ boundlists' = [boundlists EXCEPT ![inst[i][attr]][1] = WritePair]
            /\ UNCHANGED arrays
       ELSE /\ arrays' = [arrays EXCEPT ![inst[i][attr]].vals[1] = WriteValue]
            /\ UNCHANGED boundlists
    /\ UNCHANGED <<inst, calls, warnings, stdout, print_raised, ev>>

\* The caller's arrays: estimator 1's radii are dimensionless or in kpc;
\* estimator 2's arrays are unyt arrays, or one of them a plain ndarray.
InitHeap ==
    /\ \E u1 \in {"dimensionless", "kpc"},
          k2 \in {"unyt", "plain_radii", "plain_density"} :
          arrays =
             [a \in ArrayIds |->
                CASE a = SPD -> Array(starting_parameters_default, "list")
                  [] a = "radii_1" -> Array(Vec(<<1, 2>>), u1)
                  [] a = "radii_2" ->
                       Array(Vec(<<2, 3>>),
                             IF k2 = "plain_radii" THEN "none" ELSE "dimensionless")
                  [] a = "density_1" -> Array(Vec(<<30, 2>>), "g/cm**3")
                  [] a = "density_2" ->
                       Array(Vec(<<9, 1>>),
                             IF k2 = "plain_density" THEN "none" ELSE "cm**-3")
                  [] a = "start_1" -> Array(Vec(<<1, 1, 1, 0, 0, 0>>), "list")
                  [] OTHER -> Array(Vec(<<3, 1, 2, 2, 1>>), "list")]
    /\ boundlists =
          [b \in BoundIds |->
             CASE b = PBD -> parameter_bounds_default
               [] b = "bounds_1" -> NarrowBounds
               [] OTHER -> << Pair(Fin(1), Fin(8)), Pair(Fin(1), Fin(2)),
                              Pair(Fin(1), Fin(2)), Pair(Fin(0), Fin(2)),
                              Pair(Fin(0), Fin(1)), Pair(Fin(0), Fin(3)) >>]
    /\ inst = [i \in Instances |-> Blank]
    /\ calls = [i \in Instances |-> <<>>]
    /\ warnings = [i \in Instances |-> 0]
    /\ stdout = [i \in Instances |-> <<>>]
    /\ print_raised = FALSE
    /\ nwrites = 0

Init == InitHeap /\ ev = NoEval

Next ==
    \/ \E i \in Instances : Construct(i)
    \/ \E i \in Instances : PrintFitParameters(i)
    \/ \E a \in CallerArrays : CallerWrite(a)
    \/ \E i \in Instances, attr \in InputAttrs : WriteThrough(i, attr)

Spec == Init /\ [][Next]_vars

\* ------------------------------------- the model function on its own

\* Radii and parameters of the default feasible region (fitter.py:15-20) at
\* which the model function is evaluated.
RadiusGrid == {Fin(1), Fin(2), Fin(3)}
ParameterGrid ==
    { <<n_0, r_core, r_scale, alpha, beta, epsilon>> :
         n_0 \in {Fin(0), Fin(1), Fin(5)}, r_core \in {Fin(0), Fin(1), Fin(2)},
         r_scale \in {Fin(0), Fin(1), Fin(2)}, alpha \in {Fin(0), Fin(2)},
         beta \in {Fin(0), Fin(1)}, epsilon \in {Fin(0), Fin(3)} }

Evaluated(e, m) == [e EXCEPT !.phase = "evaluated", !.v1 = m.vals[1], !.v2 = m.vals[2]]

\* A call vikhlinin_density_model(radius, *p, yield_log=False) on the
\* dimensionless radii [r1, r2].
EvaluateModel ==
    /\ ev.phase = "chosen"
    /\ ev' = Evaluated(ev, vikhlinin_density_model(
                               Array(<<ev.r1, ev.r2>>, "dimensionless"),
                               ev.p[1], ev.p[2], ev.p[3], ev.p[4], ev.p[5], ev.p[6],
                               FALSE))
    /\ UNCHANGED <<arrays, boundlists, inst, calls, warnings, stdout, print_raised,
                   nwrites>>

InitModel ==
    /\ InitHeap
    /\ \E r1 \in RadiusGrid, r2 \in RadiusGrid, p \in ParameterGrid :
          /\ FLess(r1, r2)
          /\ ev = [phase |-> "chosen", r1 |-> r1, r2 |-> r2, p |-> p,
                   v1 |-> NaN, v2 |-> NaN]

NextModel == EvaluateModel

SpecModel == InitModel /\ [][NextModel]_vars

\* ------------------------------------------------------------- properties

\* Estimator i was given unyt arrays (both carry a unit attribute).
HasUnits(i) == arrays[RadiiOf(i)].units # "none" /\ arrays[DensityOf(i)].units # "none"

\* A step in which the constructor of estimator i returns the object.
FittedBy(i) == inst[i].state = "none" /\ inst'[i].state = "fitted"

\* A step in which the constructor of estimator i calls minimize.
Called(i) == Len(calls[i]) = 0 /\ Len(calls'[i]) > 0

\* What estimator i exposes: its inputs as they read now, and its results.
Observed(i) ==
    [radii |-> arrays[inst[i].radii],
     density_profile |-> arrays[inst[i].density_profile],
     starting_parameters |-> arrays[inst[i].starting_parameters],
     parameter_bounds |-> boundlists[inst[i].parameter_bounds],
     attributes |-> inst[i]]

\* The model's value at element k of estimator i's radii, for the fitted x.
ModelAt(self, radii, k) ==
    ModelValue(radii.vals[k],
               self.density_fit_params.x[1], self.density_fit_params.x[2],
               self.density_fit_params.x[3], self.density_fit_params.x[4],
               self.density_fit_params.x[5], self.density_fit_params.x[6])

\* C1: when minimize returns with success False, the construction emits one
\* RuntimeWarning and, its inputs being unyt arrays, returns the estimator with
\* the optimizer's result recorded as it stands: density_fit_params, the six
\* named parameters, density_profile_hse, success False, the decoded message
\* and the iteration count.
C1_NonConvergenceWarnsAndCompletes ==
    \A i \in Instances :
       (Len(calls[i]) > 0 /\ ~calls[i][1].raised /\ ~calls[i][1].returned.success) =>
          /\ warnings[i] = 1
          /\ HasUnits(i) =>
                /\ inst[i].state = "fitted"
                /\ inst[i].set = AllAttrs
                /\ inst[i].density_fit_params = calls[i][1].returned
                /\ inst[i].success = FALSE
                /\ inst[i].message = Decode(calls[i][1].returned.message)
                /\ inst[i].n_iterations = calls[i][1].returned.nit
                /\ Len(inst[i].density_profile_hse) = Len(arrays[inst[i].radii].vals)
                /\ \A k \in 1..6 : inst[i][UnpackOrder[k]].dtype # "unset"

C1_Witness ==
    \E i \in Instances :
       /\ inst[i].state = "fitted"
       /\ ~inst[i].success
       /\ inst[i].n_iterations = MaxIter
       /\ warnings[i] = 1

\* C2: a construction calls minimize exactly once, with method L-BFGS-B, the
\* estimator's starting_parameters as x0 and its parameter_bounds as bounds;
\* a run that does not converge is not followed by another, and
\* print_fit_parameters calls the optimizer never.
C2_OptimizerInvokedOnce ==
    \A i \in Instances :
       /\ Len(calls[i]) = IF inst[i].state = "none" THEN 0 ELSE 1
       /\ inst[i].state # "none" =>
             /\ calls[i][1].method = "L-BFGS-B"
             /\ calls[i][1].x0 = inst[i].starting_parameters
             /\ calls[i][1].bounds = inst[i].parameter_bounds

C2_Witness ==
    \E i \in Instances :
       /\ inst[i].state = "fitted"
       /\ ~inst[i].success
       /\ Len(stdout[i]) = 1
       /\ Len(calls[i]) = 1

\* C3 (as stated): estimators share no mutable object, and the module-level
\* defaults keep their values whatever is done with an estimator.
C3_NoSharedMutableState ==
    /\ arrays[SPD].vals = starting_parameters_default
    /\ boundlists[PBD] = parameter_bounds_default
    /\ \A i \in Instances, j \in Instances :
          (i # j /\ inst[i].state = "fitted" /\ inst[j].state = "fitted") =>
             /\ inst[i].starting_parameters # inst[j].starting_parameters
             /\ inst[i].parameter_bounds # inst[j].parameter_bounds

\* C4 (as stated): after construction, what an estimator exposes -- its stored
\* inputs and its results -- is changed by no later step, a caller's write to
\* an array or list it passed in included.
C4_ImmutableAfterConstruction ==
    [][\A i \in Instances : inst[i].state = "fitted" => Observed(i)' = Observed(i)]_vars

C6_AllParametersWithinBounds ==
    [][\A i \in Instances :
          FittedBy(i) =>
             \A k \in 1..6 :
                /\ IsFinite(inst'[i].density_fit_params.x[k])
                /\ InBounds(inst'[i].density_fit_params.x[k],
                            boundlists[inst'[i].parameter_bounds][k])
                /\ IsFinite(inst'[i][UnpackOrder[k]].value)
                /\ InBounds(inst'[i][UnpackOrder[k]].value,
                            boundlists[inst'[i].parameter_bounds][k])]_vars

\* C6 (amended): when the constructor returns, each component of
\* density_fit_params.x is finite and within its pair of parameter_bounds;
\* alpha, beta and epsilon equal their components; n_0, r_core and r_scale are
\* the float32 roundings of theirs, within the pair when both its ends are
\* float32 values, and finite when the component does not exceed the largest
\* float32.
C6_VectorWithinBoundsAttributesRounded ==
    [][\A i \in Instances :
          FittedBy(i) =>
             \A k \in 1..6 :
                /\ IsFinite(inst'[i].density_fit_params.x[k])
                /\ InBounds(inst'[i].density_fit_params.x[k],
                            boundlists[inst'[i].parameter_bounds][k])
                /\ k > 3 => inst'[i][UnpackOrder[k]].value = inst'[i].density_fit_params.x[k]
                /\ k <= 3 =>
                      /\ inst'[i][UnpackOrder[k]].value = F32(inst'[i].density_fit_params.x[k])
                      /\ (/\ F32(boundlists[inst'[i].parameter_bounds][k].lo)
                               = boundlists[inst'[i].parameter_bounds][k].lo
                          /\ F32(boundlists[inst'[i].parameter_bounds][k].hi)
                               = boundlists[inst'[i].parameter_bounds][k].hi)
                            => InBounds(inst'[i][UnpackOrder[k]].value,
                                        boundlists[inst'[i].parameter_bounds][k])
                      /\ FLe(inst'[i].density_fit_params.x[k], F32Largest)
                            => IsFinite(inst'[i][UnpackOrder[k]].value)]_vars

C6_Witness ==
    \E i \in Instances :
       /\ inst[i].state = "fitted"
       /\ nwrites = 0
       /\ InBounds(inst[i].density_fit_params.x[1],
                   boundlists[inst[i].parameter_bounds][1])
       /\ IsFinite(inst[i].n_0.value)
       /\ ~InBounds(inst[i].n_0.value, boundlists[inst[i].parameter_bounds][1])

\* C7: x is unpacked in the order n_0, r_core, r_scale, alpha, beta, epsilon;
\* n_0 is stored as a float32 quantity in the unit of density_profile, r_core
\* and r_scale as float32 quantities in the unit of radii, and alpha, beta and
\* epsilon as plain floats.
C7_UnpackingOrderAndUnits ==
    \A i \in Instances :
       inst[i].state = "fitted" =>
          /\ Len(inst[i].density_fit_params.x) = 6
          /\ inst[i].n_0 = [value |-> F32(inst[i].density_fit_params.x[1]),
                            units |-> arrays[inst[i].density_profile].units,
                            dtype |-> "float32"]
          /\ inst[i].r_core = [value |-> F32(inst[i].density_fit_params.x[2]),
                               units |-> arrays[inst[i].radii].units,
                               dtype |-> "float32"]
          /\ inst[i].r_scale = [value |-> F32(inst[i].density_fit_params.x[3]),
                                units |-> arrays[inst[i].radii].units,
                                dtype |-> "float32"]
          /\ inst[i].alpha = [value |-> inst[i].density_fit_params.x[4],
                              units |-> "none", dtype |-> "float64"]
          /\ inst[i].beta = [value |-> inst[i].density_fit_params.x[5],
                             units |-> "none", dtype |-> "float64"]
          /\ inst[i].epsilon = [value |-> inst[i].density_fit_params.x[6],
                                units |-> "none", dtype |-> "float64"]

C7_Witness ==
    \E i \in Instances :
       /\ inst[i].state = "fitted"
       /\ inst[i].density_fit_params.x[2] # inst[i].density_fit_params.x[3]
       /\ inst[i].density_fit_params.x[4] # inst[i].density_fit_params.x[5]
       /\ inst[i].n_0.units = "g/cm**3"
       /\ inst[i].r_core.units = "dimensionless"

RECURSIVE SquaredLogDistance(_, _, _, _)
SquaredLogDistance(self, radii, density, k) ==
    IF k > Len(radii.vals) THEN LFin(0)
    ELSE LAdd(LMul(LSub(Log10(ModelAt(self, radii, k)), Log10(Sq(density.vals[k]))),
                   LSub(Log10(ModelAt(self, radii, k)), Log10(Sq(density.vals[k])))),
              SquaredLogDistance(self, radii, density, k + 1))

\* Some log10 value entering the objective at estimator i's fitted x is not
\* finite.
UndefinedLog(self, radii, density) ==
    \E k \in 1..Len(radii.vals) :
       \/ Log10(ModelAt(self, radii, k)).k # "fin"
       \/ Log10(Sq(density.vals[k])).k # "fin"

\* C9 (as stated): the constructor passes minimize d = log10(density_profile)
\* and r = radii, modifying neither; the objective's value at the fitted x is
\* the sum of (log10(model) - d)^2, a non-negative scalar.
C9_ObjectiveNonNegative ==
    [][\A i \in Instances :
          Called(i) =>
             /\ arrays' = arrays /\ boundlists' = boundlists
             /\ calls'[i][1].radius_data = arrays[RadiiOf(i)]
             /\ calls'[i][1].density_data =
                   [k \in 1..Len(arrays[DensityOf(i)].vals) |->
                       Log10(Sq(arrays[DensityOf(i)].vals[k]))]
             /\ ~calls'[i][1].raised =>
                   /\ calls'[i][1].returned.fun =
                         SquaredLogDistance([density_fit_params |-> calls'[i][1].returned],
                                            arrays[RadiiOf(i)], arrays[DensityOf(i)], 1)
                   /\ LNonNegative(calls'[i][1].returned.fun)]_vars

\* C9 (amended): the constructor passes minimize d = log10(density_profile)
\* and r = radii, modifying neither; the objective's value at the fitted x is
\* the sum of (log10(model) - d)^2, a scalar that is non-negative, or NaN when
\* a log10 value entering it is not finite.
C9_ObjectiveNonNegativeOrNaN ==
    [][\A i \in Instances :
          Called(i) =>
             /\ arrays' = arrays /\ boundlists' = boundlists
             /\ calls'[i][1].radius_data = arrays[RadiiOf(i)]
             /\ calls'[i][1].density_data =
                   [k \in 1..Len(arrays[DensityOf(i)].vals) |->
                       Log10(Sq(arrays[DensityOf(i)].vals[k]))]
             /\ ~calls'[i][1].raised =>
                   /\ calls'[i][1].returned.fun =
                         SquaredLogDistance([density_fit_params |-> calls'[i][1].returned],
                                            arrays[RadiiOf(i)], arrays[DensityOf(i)], 1)
                   /\ \/ LNonNegative(calls'[i][1].returned.fun)
                      \/ /\ calls'[i][1].returned.fun = LNaN
                         /\ UndefinedLog([density_fit_params |-> calls'[i][1].returned],
                                         arrays[RadiiOf(i)], arrays[DensityOf(i)])]_vars

C9_Witness ==
    \E i \in Instances, j \in Instances :
       /\ inst[i].state = "fitted" /\ inst[j].state = "fitted"
       /\ inst[i].density_fit_params.fun = LNaN
       /\ inst[j].density_fit_params.fun.k = "fin"
       /\ inst[j].density_fit_params.fun.v > 0

\* C10: an estimator the caller holds has every input and result attribute
\* assigned, so print_fit_parameters never finds one missing; a constructor
\* in which a step raised returns no estimator.
C10_NoPartlyFittedInstance ==
    /\ ~print_raised
    /\ \A i \in Instances :
          inst[i].state = "fitted" =>
             /\ inst[i].set = AllAttrs
             /\ inst[i].message.type = "str"
             /\ \A k \in 1..6 : inst[i][UnpackOrder[k]].dtype # "unset"

C10_Witness ==
    \E i \in Instances, j \in Instances :
       /\ inst[i].state = "raised"
       /\ inst[i].set \cap ResultAttrs # {}
       /\ inst[i].set # AllAttrs
       /\ inst[j].state = "fitted"
       /\ Len(stdout[j]) = 1

=============================================================================
